---- MODULE Spec2Model ----
(***************************************************************************)
(* Download Orchestration Gateway (server/routes.ts): the supervisor of    *)
(* the engine process, the readiness promise, the proxy routes and the     *)
(* server-sent-event fan-out, as a state machine.  Node runs every         *)
(* callback to completion, so one action is one callback (or one           *)
(* continuation between two awaits) together with the promise reactions    *)
(* (microtasks) it queues.                                                 *)
(***************************************************************************)
EXTENDS Integers, Sequences, FiniteSets, TLC

\* ---------------------------------------------------------------- bounds
\* characters of engine standard output the model lets accumulate
MaxOutput == 3
\* event-stream connections ever opened
MaxChan == 2
\* HTTP requests ever issued to the proxy routes
MaxReq == 1
\* calls of registerRoutes, the first one included
MaxInit == 2
\* termination signals delivered to the Gateway process
MaxSignals == 2
\* calls one client makes, each after the answer to the one before
MaxCalls == 3
\* chunks of engine standard error the model lets arrive
MaxStderr == 2
\* toasts ever created by toast()
MaxToasts == 3

\* const TOAST_LIMIT = 1
TOAST_LIMIT == 1

\* ------------------------------------------------------- engine stdout
\* The sentinel "Application startup complete" abstracted to two characters;
\* "X" is any other text.
Sentinel == <<"A", "B">>

Chunks == { <<"A">>, <<"B">>, <<"A", "B">>, <<"X">> }

\* String.prototype.includes
Includes(s, sub) ==
    \E i \in 1..(Len(s) - Len(sub) + 1) : SubSeq(s, i, i + Len(sub) - 1) = sub

\* output += data.toString()
AccumulateLastOnly(output, data) == data

Accumulate(output, data) == output \o data

\* chunks on the error stream: "I" and "W" stand for "INFO:" and "WARNING:"
ErrChunks == { <<"I">>, <<"W", "X">>, <<"X">>, <<"A", "B">>, <<"I", "A", "B">> }

\* !message.includes("INFO:") && !message.includes("WARNING:")
Critical(message) == ~Includes(message, <<"I">>) /\ ~Includes(message, <<"W">>)

ExitCodes == {"0", "1", "2", "null"}

\* code !== 0 && code !== null
IsCrashOnlyOne(code) == code = "1"

IsCrash(code) == code # "0" /\ code # "null"

\* `Python service exited with code ${code}`
ExitReason(code) ==
    CASE code = "1" -> "Python service exited with code 1"
      [] code = "2" -> "Python service exited with code 2"
      [] OTHER -> "Python service exited with code"

VARIABLES
    gw,             \* the Gateway's own process: [st, code, signals received]
    procs,          \* engine processes ever spawned, in spawn order
    pythonProcess,  \* module variable: index in procs of the tracked handle
    sup,            \* one record per registerRoutes call: promise, timer, output
    routes,         \* the Express router stack, in registration order
    clients,        \* module variable: the Set of event-stream responses
    chan,           \* every event-stream connection: transport state and traffic
    bcast,          \* number of notifyClients() calls so far
    reqs,           \* HTTP requests to /api/downloads...: handler position and result
    issued,         \* number of requests issued so far
    toaster         \* the browser's toast store: memoryState.toasts, count,
                    \* toastTimeouts (has) and the timers scheduled per id (armed)

vars == <<gw, procs, pythonProcess, sup, routes, clients, chan, bcast, reqs, issued,
          toaster>>

Chan == 1..MaxChan
Req == 1..MaxReq

\* ---------------------------------------------------- readiness promise
Pending == [st |-> "pending", reason |-> "-"]

\* resolve(true): settles a pending promise, a no-op on a settled one
Resolve(p) == IF p.st = "pending" THEN [st |-> "resolved", reason |-> "-"] ELSE p

RejectAlways(p, reason) == [st |-> "rejected", reason |-> reason]

\* reject(err): settles a pending promise, a no-op on a settled one
Reject(p, reason) ==
    IF p.st = "pending" THEN [st |-> "rejected", reason |-> reason] ELSE p

\* --------------------------------------------------------- fan-out hub
\* client.write(marker) on one response: delivered while the transport is up,
\* dropped (write returns false, nothing thrown) once the peer is gone
Write(ch, marker) ==
    IF ch.st = "open"
    THEN [ch EXCEPT !.writes = @ + 1, !.recv = Append(@, marker)]
    ELSE [ch EXCEPT !.writes = @ + 1, !.failed = TRUE]

notifyClientsFirst(cl, ch) ==
    [c \in Chan |-> IF c \in cl /\ \A d \in cl : c <= d
                    THEN [ch[c] EXCEPT !.writes = @ + 1,
                                       !.recv = IF ch[c].st = "open"
                                                THEN Append(@, "update") ELSE @]
                    ELSE ch[c]]

\* clients.forEach(client => client.write(`data: update\n\n`))
notifyClients(cl, ch) ==
    [c \in Chan |-> IF c \in cl THEN Write(ch[c], "update") ELSE ch[c]]

\* -------------------------------------------------------------- routing
EventsRoute == [method |-> "GET", path |-> "/api/downloads/events"]
ListRoute == [method |-> "GET", path |-> "/api/downloads"]
CreateRoute == [method |-> "POST", path |-> "/api/downloads"]

\* the .then callback of waitForPythonService: app.get(...), app.post(...)
RegisterJobRoutes(rt) == rt \o <<ListRoute, CreateRoute>>

\* Express dispatch: the first registered route with the request's method and path
Matches(rt, m, p) == { k \in 1..Len(rt) : rt[k].method = m /\ rt[k].path = p }

Routed(rt, m, p) == Matches(rt, m, p) # {}

\* ------------------------------------------------------- request bodies
Formats == {"mp4", "webm", "m4a", "mp3"}
Qualities == {"high", "medium", "low"}

\* z.string().url(): the strings new URL() accepts
IsUrl(u) == u \in {"https://example.com/v1"}

\* z.boolean()
IsBoolean(v) == v \in {"true", "false"}

\* formSchema of the download form (client side)
formSchema(b) ==
    /\ IsUrl(b.url)
    /\ b.format \in Formats
    /\ b.quality \in Qualities
    /\ IsBoolean(b.is_playlist)

GoodBody == [url |-> "https://example.com/v1", format |-> "mp4",
             quality |-> "high", is_playlist |-> "false"]

NoBody == [url |-> "-", format |-> "-", quality |-> "-", is_playlist |-> "-"]

Bodies == { GoodBody,
            [GoodBody EXCEPT !.url = "not a url"],
            [GoodBody EXCEPT !.format = "avi"],
            [GoodBody EXCEPT !.quality = "ultra"],
            [GoodBody EXCEPT !.is_playlist = "\"yes\""] }

\* Job specs the form accepts
ValidSpecs == { GoodBody,
                [GoodBody EXCEPT !.format = "mp3", !.quality = "low",
                                 !.is_playlist = "true"] }

Controls == {"pause", "resume", "cancel"}

\* path of a control call of the client library for job "abc123"
ControlPath(op) ==
    CASE op = "pause" -> "/api/downloads/abc123/pause"
      [] op = "resume" -> "/api/downloads/abc123/resume"
      [] op = "cancel" -> "/api/downloads/abc123/cancel"

\* what a browser (or any HTTP client) may send to the Gateway
Inputs ==
    { [method |-> "GET", path |-> "/api/downloads", body |-> NoBody] }
    \cup { [method |-> "POST", path |-> "/api/downloads", body |-> b] : b \in Bodies }
    \cup { [method |-> "POST", path |-> ControlPath(op), body |-> NoBody] : op \in Controls }

\* ------------------------------------------------------- engine replies
NoReply == [status |-> 0, text |-> "-"]

EngineReplies ==
    { [status |-> 200, text |-> "{job1}"], [status |-> 200, text |-> "{job2}"],
      [status |-> 200, text |-> "<html>"],
      [status |-> 500, text |-> "{detail}"], [status |-> 422, text |-> "bad request"] }

\* The engine (server/downloader.py) is a separate program; its job table follows
\* the data model of the specification: the engine creates one Job per accepted
\* creation call, assigns its id, and lists every Job it holds.
MakeJob(n, b) == [id |-> ToString(n), url |-> b.url, format |-> b.format,
                  quality |-> b.quality, is_playlist |-> b.is_playlist]

\* the submitted fields of a Job
SpecOf(j) == [url |-> j.url, format |-> j.format, quality |-> j.quality,
              is_playlist |-> j.is_playlist]

\* the JSON text of a Job
JobText(j) ==
    "{id:" \o j.id \o ",url:" \o j.url \o ",format:" \o j.format \o ",quality:"
        \o j.quality \o ",is_playlist:" \o j.is_playlist \o ",status:queued}"

\* the JSON text of an array of Jobs
RECURSIVE ListItems(_)
ListItems(js) ==
    IF js = <<>> THEN ""
    ELSE JobText(Head(js)) \o (IF Len(js) > 1 THEN "," ELSE "") \o ListItems(Tail(js))

ListText(js) == "[" \o ListItems(js) \o "]"

\* the job tables an engine can hold after at most MaxCalls creations
RECURSIVE Tables(_)
Tables(n) ==
    IF n = 0 THEN { <<>> }
    ELSE Tables(n - 1) \cup
         { Append(t, MakeJob(n, b)) : t \in { u \in Tables(n - 1) : Len(u) = n - 1 },
                                      b \in ValidSpecs }

JobTables == Tables(MaxCalls)

\* the array a listing text stands for
JobsOf(t) == CHOOSE js \in JobTables : ListText(js) = t

\* the engine's answer to a call, and its job table afterwards
EngineAnswer(jobs, call) ==
    IF call.url = "/downloads"
    THEN [reply |-> [status |-> 200, text |-> ListText(jobs)], jobs |-> jobs]
    ELSE IF call.body \in ValidSpecs
         THEN LET j == MakeJob(Len(jobs) + 1, call.body)
              IN [reply |-> [status |-> 200, text |-> JobText(j)], jobs |-> Append(jobs, j)]
         ELSE [reply |-> [status |-> 422, text |-> "bad request"], jobs |-> jobs]

\* response.ok
Ok(reply) == reply.status >= 200 /\ reply.status <= 299

JsonTexts ==
    {"{job1}", "{job2}", "{detail}"}
    \cup { ListText(js) : js \in JobTables }
    \cup { JobText(js[Len(js)]) : js \in JobTables \ { <<>> } }

\* response.json(): JSON.parse of the body text, or a SyntaxError
Parse(t) == IF t \in JsonTexts THEN <<"value", t>> ELSE <<"SyntaxError", "Unexpected token">>

\* res.json(v): JSON.stringify of a parsed value
Stringify(v) == v[2]

NoResp == [status |-> 0, body |-> "-"]

\* res.json(result)
SendJson(v) == [status |-> 200, body |-> Stringify(v)]

SendErrorOk(msg) == [status |-> 200, body |-> msg]

\* res.status(500).send(message)
SendError(msg) == [status |-> 500, body |-> msg]

\* a request no registered route matches falls through to what is mounted behind
\* the routes (the page fallback), which never calls the engine
Unrouted == [status |-> 0, body |-> "no route"]

\* handler: the route handler that took the request; ready: whether the readiness
\* promise was resolved when it arrived; up: whether the tracked engine process was
\* alive when it arrived; calls: the fetches it issued; ev: what its
\* handler did, in program order
FreeReq == [method |-> "-", path |-> "-", body |-> NoBody, pc |-> "free",
            handler |-> "-", ready |-> FALSE, up |-> FALSE,
            eng |-> NoReply, resp |-> NoResp, calls |-> <<>>, ev |-> <<>>]

\* fetch("http://localhost:5001/downloads")
ListCall == [method |-> "GET", url |-> "/downloads", body |-> NoBody]

CreateCallNoPlaylist(b) ==
    [method |-> "POST", url |-> "/download", body |-> [b EXCEPT !.is_playlist = "false"]]

\* fetch("http://localhost:5001/download", {method: "POST", body: JSON.stringify(req.body)})
CreateCall(b) == [method |-> "POST", url |-> "/download", body |-> b]

\* ----------------------------------------------------- proxy handlers
\* the handler of the first route that matches
Handler(rt, inp) ==
    LET k == CHOOSE k \in Matches(rt, inp.method, inp.path) :
                 \A j \in Matches(rt, inp.method, inp.path) : k <= j
    IN IF rt[k] = ListRoute THEN "listJobs" ELSE "createJob"

\* the fetch each handler starts with
EngineCall(h, body) == IF h = "listJobs" THEN ListCall ELSE CreateCall(body)

\* catch block of GET /api/downloads
ListFailedEmpty == [resp |-> [status |-> 200, body |-> "[]"], notify |-> FALSE,
                    ev |-> <<"catch", "respond">>]

ListFailed == [resp |-> SendError("Failed to fetch downloads"), notify |-> FALSE,
               ev |-> <<"catch", "respond">>]

\* GET /api/downloads after the fetch: downloads = await response.json(); res.json(downloads)
ListOutcome(eng) ==
    LET downloads == Parse(eng.text)
    IN IF downloads[1] = "SyntaxError"
       THEN ListFailed
       ELSE [resp |-> SendJson(downloads), notify |-> FALSE, ev |-> <<"json", "respond">>]

\* catch block of POST /api/downloads: error.message is the detail
CreateFailedGeneric(message) ==
    [resp |-> SendError("Failed to start download"), notify |-> FALSE,
     ev |-> <<"catch", "respond">>]

CreateFailed(message) ==
    [resp |-> SendError(message), notify |-> FALSE, ev |-> <<"catch", "respond">>]

\* POST /api/downloads after the fetch
CreateOutcomeNoNotify(eng) ==
    IF ~Ok(eng)
    THEN CreateFailed(eng.text)
    ELSE LET result == Parse(eng.text)
         IN IF result[1] = "SyntaxError"
            THEN CreateFailed(result[2])
            ELSE [resp |-> SendJson(result), notify |-> FALSE,
                  ev |-> <<"ok", "json", "respond">>]

CreateOutcome(eng) ==
    IF ~Ok(eng)
    THEN CreateFailed(eng.text)
    ELSE LET result == Parse(eng.text)
         IN IF result[1] = "SyntaxError"
            THEN CreateFailed(result[2])
            ELSE [resp |-> SendJson(result), notify |-> TRUE,
                  ev |-> <<"ok", "json", "notify", "respond">>]

\* ------------------------------------------------------------- toasts
\* ids genId() can return, as strings
ToastIds == { ToString(n) : n \in 1..MaxToasts }

\* an action dispatched without a toastId
Undefined == "undefined"

\* titles a caller gives a toast
Titles == {"a", "b"}

NoToast == [id |-> "-", open |-> FALSE, title |-> "-"]

AddToast(t) == [type |-> "ADD_TOAST", toast |-> t, toastId |-> Undefined]

UpdateToast(t) == [type |-> "UPDATE_TOAST", toast |-> t, toastId |-> Undefined]

DismissToast(id) == [type |-> "DISMISS_TOAST", toast |-> NoToast, toastId |-> id]

RemoveToast(id) == [type |-> "REMOVE_TOAST", toast |-> NoToast, toastId |-> id]

\* array.slice(0, n)
Slice(a, n) == SubSeq(a, 1, IF Len(a) < n THEN Len(a) ELSE n)

\* the state part of the reducer
reducer(toasts, action) ==
    CASE action.type = "ADD_TOAST" ->
             Slice(<<action.toast>> \o toasts, TOAST_LIMIT)
      [] action.type = "UPDATE_TOAST" ->
             [k \in 1..Len(toasts) |->
                 IF toasts[k].id = action.toast.id
                 THEN [toasts[k] EXCEPT !.title = action.toast.title]
                 ELSE toasts[k]]
      [] action.type = "DISMISS_TOAST" ->
             [k \in 1..Len(toasts) |->
                 IF toasts[k].id = action.toastId \/ action.toastId = Undefined
                 THEN [toasts[k] EXCEPT !.open = FALSE]
                 ELSE toasts[k]]
      [] action.type = "REMOVE_TOAST" ->
             IF action.toastId = Undefined THEN <<>>
             ELSE SelectSeq(toasts, LAMBDA t : t.id # action.toastId)

\* a queue that schedules a timer on every call
addToRemoveQueueNoCheck(q, toastId) ==
    [has |-> q.has \cup {toastId}, armed |-> [q.armed EXCEPT ![toastId] = @ + 1]]

\* addToRemoveQueue: schedules the removal unless toastTimeouts has the id
addToRemoveQueue(q, toastId) ==
    IF toastId \in q.has THEN q
    ELSE [has |-> q.has \cup {toastId}, armed |-> [q.armed EXCEPT ![toastId] = @ + 1]]

\* state.toasts.forEach((toast) => addToRemoveQueue(toast.id))
RECURSIVE QueueAll(_, _)
QueueAll(q, toasts) ==
    IF toasts = <<>> THEN q
    ELSE QueueAll(addToRemoveQueue(q, Head(toasts).id), Tail(toasts))

\* the side effect of the reducer: DISMISS_TOAST queues the removals
Queue(q, toasts, action) ==
    IF action.type # "DISMISS_TOAST" THEN q
    ELSE IF action.toastId # Undefined THEN addToRemoveQueue(q, action.toastId)
    ELSE QueueAll(q, toasts)

\* dispatch(action): memoryState = reducer(memoryState, action)
dispatch(s, action) ==
    LET q == Queue([has |-> s.has, armed |-> s.armed], s.toasts, action)
    IN [s EXCEPT !.toasts = reducer(s.toasts, action), !.has = q.has, !.armed = q.armed]

NewToaster == [toasts |-> <<>>, count |-> 0, has |-> {},
               armed |-> [id \in ToastIds |-> 0]]

\* toast(): genId, then ADD_TOAST of the new toast, open
Toast(title) ==
    /\ toaster.count < MaxToasts
    /\ LET id == ToString(toaster.count + 1)
       IN toaster' = dispatch([toaster EXCEPT !.count = @ + 1],
                              AddToast([id |-> id, open |-> TRUE, title |-> title]))
    /\ UNCHANGED <<gw, procs, pythonProcess, sup, routes, clients, chan, bcast, reqs, issued>>

\* update(props) of a toast handle
Update(id, title) ==
    /\ toaster' = dispatch(toaster, UpdateToast([id |-> id, open |-> TRUE, title |-> title]))
    /\ UNCHANGED <<gw, procs, pythonProcess, sup, routes, clients, chan, bcast, reqs, issued>>

\* dismiss(toastId?)
Dismiss(toastId) ==
    /\ toaster' = dispatch(toaster, DismissToast(toastId))
    /\ UNCHANGED <<gw, procs, pythonProcess, sup, routes, clients, chan, bcast, reqs, issued>>

\* a REMOVE_TOAST dispatched directly
Remove(toastId) ==
    /\ toaster' = dispatch(toaster, RemoveToast(toastId))
    /\ UNCHANGED <<gw, procs, pythonProcess, sup, routes, clients, chan, bcast, reqs, issued>>

\* a removal timer fires: toastTimeouts.delete(toastId); dispatch REMOVE_TOAST
RemoveTimer(toastId) ==
    /\ toaster.armed[toastId] > 0
    /\ toaster' = dispatch([toaster EXCEPT !.has = @ \ {toastId},
                                           !.armed[toastId] = @ - 1],
                           RemoveToast(toastId))
    /\ UNCHANGED <<gw, procs, pythonProcess, sup, routes, clients, chan, bcast, reqs, issued>>

\* ------------------------------------------------------------------ Init
\* jobs: the engine's own job table
NewProc == [alive |-> TRUE, kills |-> 0, code |-> "-", out |-> <<>>, jobs |-> <<>>]

\* errs: what the stderr listener logged, with its classification
NewSup == [promise |-> Pending, timer |-> TRUE, output |-> <<>>, timedOut |-> FALSE,
           errs |-> <<>>]

\* the browser's end, the download view that holds the EventSource: got, the
\* messages dispatched to onmessage; refetch, the calls of refetch(); torn, the
\* view was unmounted and its cleanup ran
NewChan == [st |-> "none", writes |-> 0, recv |-> <<>>, failed |-> FALSE,
            got |-> 0, refetch |-> 0, torn |-> FALSE]

\* the state when registerRoutes(app) has returned, called once at start-up
Init ==
    /\ gw = [st |-> "running", code |-> 0, signals |-> 0]
    /\ procs = <<NewProc>>
    /\ pythonProcess = 1
    /\ sup = <<NewSup>>
    /\ routes = <<EventsRoute>>
    /\ clients = {}
    /\ chan = [c \in Chan |-> NewChan]
    /\ bcast = 0
    /\ reqs = [r \in Req |-> FreeReq]
    /\ issued = 0
    /\ toaster = NewToaster

Running == gw.st = "running"

\* the readiness promise of the tracked engine is resolved
IsReady == sup[pythonProcess].promise.st = "resolved"

\* pythonProcess.kill() on the tracked handle
KillNothing(ps, k) == ps

Kill(ps, k) == [ps EXCEPT ![k].kills = @ + 1]

\* .catch of the readiness chain: process.exit(1) once the promise is rejected
Fatal(g, before, after) ==
    IF before.st = "pending" /\ after.st = "rejected"
    THEN [g EXCEPT !.st = "exited", !.code = 1]
    ELSE g

\* .then of the readiness chain: runs once, when the promise becomes resolved
Ready(rt, before, after) ==
    IF before.st = "pending" /\ after.st = "resolved" THEN RegisterJobRoutes(rt) ELSE rt

\* ---------------------------------------------------- supervisor events
\* pythonProcess.stdout.on('data')
StdoutData(i, data) ==
    /\ Running
    /\ Len(procs[i].out) + Len(data) <= MaxOutput
    /\ LET output == Accumulate(sup[i].output, data)
           hit == Includes(output, Sentinel)
           p == IF hit THEN Resolve(sup[i].promise) ELSE sup[i].promise
       IN /\ sup' = [sup EXCEPT ![i] = [@ EXCEPT !.output = output,
                                                 !.timer = IF hit THEN FALSE ELSE @,
                                                 !.promise = p]]
          /\ routes' = Ready(routes, sup[i].promise, p)
    /\ procs' = [procs EXCEPT ![i].out = @ \o data]
    /\ chan' = notifyClients(clients, chan)
    /\ bcast' = bcast + 1
    /\ UNCHANGED <<gw, pythonProcess, clients, reqs, issued, toaster>>

\* the stderr listener treated like the stdout one
OnStderrAsStdout(s, message) ==
    LET output == Accumulate(s.output, message)
    IN [s EXCEPT !.errs = Append(@, [message |-> message, critical |-> Critical(message)]),
                 !.output = output,
                 !.promise = IF Includes(output, Sentinel) THEN Resolve(@) ELSE @]

\* body of the stderr listener: two console.error calls at most
OnStderr(s, message) ==
    [s EXCEPT !.errs = Append(@, [message |-> message, critical |-> Critical(message)])]

\* pythonProcess.stderr.on('data')
StderrData(i, message) ==
    /\ Running
    /\ Len(sup[i].errs) < MaxStderr
    /\ sup' = [sup EXCEPT ![i] = OnStderr(@, message)]
    /\ UNCHANGED <<gw, procs, pythonProcess, routes, clients, chan, bcast, reqs, issued, toaster>>

\* the setTimeout callback of waitForPythonService
TimeoutFires(i) ==
    /\ Running
    /\ sup[i].timer
    /\ LET p == Reject(sup[i].promise, "Python service failed to start")
       IN /\ sup' = [sup EXCEPT ![i] = [@ EXCEPT !.timer = FALSE, !.timedOut = TRUE,
                                                 !.promise = p]]
          /\ gw' = Fatal(gw, sup[i].promise, p)
    /\ procs' = Kill(procs, pythonProcess)
    /\ UNCHANGED <<pythonProcess, routes, clients, chan, bcast, reqs, issued, toaster>>

\* pythonProcess.on('exit')
ProcExit(i, code) ==
    /\ Running
    /\ procs[i].alive
    /\ procs' = [procs EXCEPT ![i].alive = FALSE, ![i].code = code]
    /\ LET p == IF IsCrash(code)
                THEN Reject(sup[i].promise, ExitReason(code))
                ELSE sup[i].promise
       IN /\ sup' = [sup EXCEPT ![i] = [@ EXCEPT !.timer = FALSE, !.promise = p]]
          /\ gw' = Fatal(gw, sup[i].promise, p)
    /\ UNCHANGED <<pythonProcess, routes, clients, chan, bcast, reqs, issued, toaster>>

\* pythonProcess.on('error'): the process could not be spawned
ProcError(i) ==
    /\ Running
    /\ procs[i].alive
    /\ procs' = [procs EXCEPT ![i].alive = FALSE, ![i].code = "error"]
    /\ LET p == Reject(sup[i].promise, "spawn error")
       IN /\ sup' = [sup EXCEPT ![i] = [@ EXCEPT !.timer = FALSE, !.promise = p]]
          /\ gw' = Fatal(gw, sup[i].promise, p)
    /\ UNCHANGED <<pythonProcess, routes, clients, chan, bcast, reqs, issued, toaster>>

\* if (pythonProcess) pythonProcess.kill(), at the top of registerRoutes
Retire(ps, k) == Kill(ps, k)

\* registerRoutes called again on the same module: the tracked process is sent a
\* kill, a new one is spawned and tracked, a new readiness promise and timer are
\* created, the events route and one more SIGTERM listener are added. The
\* listeners and the timer of the earlier call stay attached.
RegisterRoutes ==
    /\ Running
    /\ Len(sup) < MaxInit
    /\ procs' = Append(Retire(procs, pythonProcess), NewProc)
    /\ pythonProcess' = Len(procs) + 1
    /\ sup' = Append(sup, NewSup)
    /\ routes' = Append(routes, EventsRoute)
    /\ UNCHANGED <<gw, clients, chan, bcast, reqs, issued, toaster>>

\* every SIGTERM listener runs: if (pythonProcess) pythonProcess.kill()
RECURSIVE KillBy(_, _, _)
KillBy(ps, k, n) == IF n = 0 THEN ps ELSE KillBy(Kill(ps, k), k, n - 1)

\* one listener is registered by each call of registerRoutes
Listeners == Len(sup)

\* process.on('SIGTERM'): with a listener installed the signal no longer ends the
\* process; the listeners only ask the tracked engine to terminate
Sigterm ==
    /\ Running
    /\ gw.signals < MaxSignals
    /\ gw' = [gw EXCEPT !.signals = @ + 1]
    /\ procs' = KillBy(procs, pythonProcess, Listeners)
    /\ UNCHANGED <<pythonProcess, sup, routes, clients, chan, bcast, reqs, issued, toaster>>

\* ------------------------------------------------------- event stream
\* app.get("/api/downloads/events"): res.write(ping); clients.add(res)
SubscribeChanNoPing(ch) == [ch EXCEPT !.st = "open"]

SubscribeChan(ch) == Write([ch EXCEPT !.st = "open"], "ping")

Subscribe ==
    /\ Running
    /\ \E c \in Chan :
        /\ chan[c].st = "none"
        /\ \A d \in Chan : d < c => chan[d].st # "none"
        /\ chan' = [chan EXCEPT ![c] = SubscribeChan(chan[c])]
        /\ clients' = clients \cup {c}
    /\ UNCHANGED <<gw, procs, pythonProcess, sup, routes, bcast, reqs, issued, toaster>>

\* the peer goes away; the transport's close signal has not been raised yet
Disconnect(c) ==
    /\ Running
    /\ chan[c].st = "open"
    /\ chan' = [chan EXCEPT ![c].st = "dead"]
    /\ UNCHANGED <<gw, procs, pythonProcess, sup, routes, clients, bcast, reqs, issued, toaster>>

\* req.on("close", () => clients.delete(res))
OnCloseKeep(cl, c) == cl

OnClose(cl, c) == cl \ {c}

CloseEvent(c) ==
    /\ Running
    /\ chan[c].st \in {"open", "dead"}
    /\ chan' = [chan EXCEPT ![c].st = "closed"]
    /\ clients' = OnClose(clients, c)
    /\ UNCHANGED <<gw, procs, pythonProcess, sup, routes, bcast, reqs, issued, toaster>>

\* --------------------------------------------------- the download view
\* a handler that re-fetches on update markers only
onmessageUpdateOnly(ch) ==
    [ch EXCEPT !.got = @ + 1,
               !.refetch = IF ch.recv[ch.got + 1] = "update" THEN @ + 1 ELSE @]

\* source.onmessage = () => { refetch(); }
onmessage(ch) == [ch EXCEPT !.got = @ + 1, !.refetch = @ + 1]

\* the browser dispatches the next message of an EventSource that is not closed
OnMessage(c) ==
    /\ chan[c].st # "none"
    /\ ~chan[c].torn
    /\ chan[c].got < Len(chan[c].recv)
    /\ chan' = [chan EXCEPT ![c] = onmessage(@)]
    /\ UNCHANGED <<gw, procs, pythonProcess, sup, routes, clients, bcast, reqs, issued, toaster>>

\* cleanup of the effect: source.close(); the connection goes away with it
Unmount(c) ==
    /\ chan[c].st # "none"
    /\ ~chan[c].torn
    /\ chan' = [chan EXCEPT ![c].torn = TRUE,
                            ![c].st = IF @ = "open" THEN "dead" ELSE @]
    /\ UNCHANGED <<gw, procs, pythonProcess, sup, routes, clients, bcast, reqs, issued, toaster>>

\* ------------------------------------------------------ proxy requests
\* a request arrives: its handler runs up to the first await (the fetch)
Arrive(inp) ==
    /\ Running
    /\ issued' = issued + 1
    /\ \E r \in Req :
        /\ reqs[r].pc = "free"
        /\ \A q \in Req : q < r => reqs[q].pc # "free"
        /\ reqs' = [reqs EXCEPT ![r] =
              LET arrived == [FreeReq EXCEPT !.method = inp.method, !.path = inp.path,
                                             !.body = inp.body,
                                             !.ready = IsReady,
                                             !.up = procs[pythonProcess].alive]
              IN IF Routed(routes, inp.method, inp.path)
                 THEN LET h == Handler(routes, inp)
                      IN [arrived EXCEPT !.pc = "fetch", !.handler = h,
                                         !.calls = <<EngineCall(h, inp.body)>>,
                                         !.ev = <<"fetch">>]
                 ELSE [arrived EXCEPT !.pc = "done", !.handler = "none",
                                      !.resp = Unrouted]]
    /\ UNCHANGED <<gw, procs, pythonProcess, sup, routes, clients, chan, bcast, toaster>>

HttpRequest(inp) == issued < MaxReq /\ Arrive(inp)

\* what the client library sends for getDownloads and startDownload
ClientInputs ==
    { [method |-> "GET", path |-> "/api/downloads", body |-> NoBody] }
    \cup { [method |-> "POST", path |-> "/api/downloads", body |-> b] : b \in ValidSpecs }

\* a client that awaits each answer before its next call
ClientCall(inp) ==
    /\ issued < MaxCalls
    /\ \A r \in Req : reqs[r].pc = "free"
    /\ Arrive(inp)

\* the fetch resolves with the engine's response; the handler awaits the body.
\* Only a live engine answers on its port.
FetchSettles(r, reply) ==
    /\ Running
    /\ reqs[r].pc = "fetch"
    /\ procs[pythonProcess].alive
    /\ reqs' = [reqs EXCEPT ![r].pc = "body", ![r].eng = reply]
    /\ UNCHANGED <<gw, procs, pythonProcess, sup, routes, clients, chan, bcast, issued, toaster>>

\* the same, with the answer the engine's job table gives
EngineServes(r) ==
    /\ Running
    /\ reqs[r].pc = "fetch"
    /\ procs[pythonProcess].alive
    /\ LET a == EngineAnswer(procs[pythonProcess].jobs, reqs[r].calls[1])
       IN /\ reqs' = [reqs EXCEPT ![r].pc = "body", ![r].eng = a.reply]
          /\ procs' = [procs EXCEPT ![pythonProcess].jobs = a.jobs]
    /\ UNCHANGED <<gw, pythonProcess, sup, routes, clients, chan, bcast, issued, toaster>>

\* the fetch rejects (connection refused): the catch block answers
FetchFails(r) ==
    /\ Running
    /\ reqs[r].pc = "fetch"
    /\ LET o == IF reqs[r].handler = "listJobs" THEN ListFailed ELSE CreateFailed("fetch failed")
       IN reqs' = [reqs EXCEPT ![r].pc = "done", ![r].resp = o.resp,
                               ![r].ev = @ \o o.ev]
    /\ UNCHANGED <<gw, procs, pythonProcess, sup, routes, clients, chan, bcast, issued, toaster>>

\* the body is read: the rest of the handler runs to its response
BodySettles(r) ==
    /\ Running
    /\ reqs[r].pc = "body"
    /\ LET o == IF reqs[r].handler = "listJobs" THEN ListOutcome(reqs[r].eng)
                ELSE CreateOutcome(reqs[r].eng)
       IN /\ reqs' = [reqs EXCEPT ![r].pc = "done", ![r].resp = o.resp,
                                  ![r].ev = @ \o o.ev]
          /\ chan' = IF o.notify THEN notifyClients(clients, chan) ELSE chan
          /\ bcast' = IF o.notify THEN bcast + 1 ELSE bcast
    /\ UNCHANGED <<gw, procs, pythonProcess, sup, routes, clients, issued, toaster>>

\* the caller has its response
Deliver(r) ==
    /\ reqs[r].pc = "done"
    /\ reqs' = [reqs EXCEPT ![r] = FreeReq]
    /\ UNCHANGED <<gw, procs, pythonProcess, sup, routes, clients, chan, bcast, issued, toaster>>

Next ==
    \/ \E i \in 1..Len(sup), data \in Chunks : StdoutData(i, data)
    \/ \E i \in 1..Len(sup), message \in ErrChunks : StderrData(i, message)
    \/ \E i \in 1..Len(sup) : TimeoutFires(i)
    \/ \E i \in 1..Len(sup), code \in ExitCodes : ProcExit(i, code)
    \/ \E i \in 1..Len(sup) : ProcError(i)
    \/ RegisterRoutes
    \/ Sigterm
    \/ Subscribe
    \/ \E c \in Chan : Disconnect(c)
    \/ \E c \in Chan : CloseEvent(c)
    \/ \E c \in Chan : OnMessage(c)
    \/ \E c \in Chan : Unmount(c)
    \/ \E inp \in Inputs : HttpRequest(inp)
    \/ \E r \in Req, reply \in EngineReplies : FetchSettles(r, reply)
    \/ \E r \in Req : FetchFails(r)
    \/ \E r \in Req : BodySettles(r)
    \/ \E r \in Req : Deliver(r)
    \/ \E title \in Titles : Toast(title)
    \/ \E id \in ToastIds, title \in Titles : Update(id, title)
    \/ \E id \in ToastIds \cup {Undefined} : Dismiss(id)
    \/ \E id \in ToastIds \cup {Undefined} : Remove(id)
    \/ \E id \in ToastIds : RemoveTimer(id)

Spec == Init /\ [][Next]_vars

\* ------------------------------------------------- the parts, on their own
\* The product of supervisor, hub and proxy is too large to enumerate at once;
\* each part is also run with the others reduced to what drives it.

\* the supervisor with event-stream clients coming and going
NextSupervisor ==
    \/ \E i \in 1..Len(sup), data \in Chunks : StdoutData(i, data)
    \/ \E i \in 1..Len(sup) : TimeoutFires(i)
    \/ \E i \in 1..Len(sup), code \in ExitCodes : ProcExit(i, code)
    \/ \E i \in 1..Len(sup) : ProcError(i)
    \/ Subscribe
    \/ \E c \in Chan : CloseEvent(c)

SpecSupervisor == Init /\ [][NextSupervisor]_vars

GoodCreate == [method |-> "POST", path |-> "/api/downloads", body |-> GoodBody]

\* the hub, with both sources of broadcasts: engine output and accepted creations
NextHub ==
    \/ StdoutData(1, Sentinel)
    \/ Subscribe
    \/ \E c \in Chan : Disconnect(c)
    \/ \E c \in Chan : CloseEvent(c)
    \/ HttpRequest(GoodCreate)
    \/ \E r \in Req : FetchSettles(r, [status |-> 200, text |-> "{job1}"])
    \/ \E r \in Req : BodySettles(r)
    \/ \E r \in Req : Deliver(r)

SpecHub == Init /\ [][NextHub]_vars

\* the proxy routes, with an engine that reports readiness in one chunk
NextGateway ==
    \/ StdoutData(1, Sentinel)
    \/ Subscribe
    \/ \E inp \in Inputs : HttpRequest(inp)
    \/ \E r \in Req, reply \in EngineReplies : FetchSettles(r, reply)
    \/ \E r \in Req : FetchFails(r)
    \/ \E r \in Req : BodySettles(r)
    \/ \E r \in Req : Deliver(r)

SpecGateway == Init /\ [][NextGateway]_vars

\* the proxy routes in front of an engine that may exit at any time
NextService ==
    \/ StdoutData(1, Sentinel)
    \/ \E code \in ExitCodes : ProcExit(1, code)
    \/ \E inp \in Inputs : HttpRequest(inp)
    \/ \E r \in Req, reply \in EngineReplies : FetchSettles(r, reply)
    \/ \E r \in Req : FetchFails(r)
    \/ \E r \in Req : BodySettles(r)
    \/ \E r \in Req : Deliver(r)

SpecService == Init /\ [][NextService]_vars

\* the same, where a pending fetch or body read does not stay pending forever:
\* a connection to a port nobody listens on is refused at once
SpecServiceFair ==
    /\ Init /\ [][NextService]_vars
    /\ \A r \in Req : WF_vars(FetchFails(r)) /\ WF_vars(BodySettles(r))

\* one client calling the proxy routes in sequence, the engine keeping its jobs
NextEngine ==
    \/ StdoutData(1, Sentinel)
    \/ Subscribe
    \/ \E inp \in ClientInputs : ClientCall(inp)
    \/ \E r \in Req : EngineServes(r)
    \/ \E r \in Req : FetchFails(r)
    \/ \E r \in Req : BodySettles(r)
    \/ \E r \in Req : Deliver(r)

SpecEngine == Init /\ [][NextEngine]_vars

\* the start of one engine, with both of its output streams
NextStartup ==
    \/ \E data \in Chunks : StdoutData(1, data)
    \/ \E message \in ErrChunks : StderrData(1, message)
    \/ TimeoutFires(1)
    \/ \E code \in ExitCodes : ProcExit(1, code)
    \/ ProcError(1)

SpecStartup == Init /\ [][NextStartup]_vars

\* the same, where an armed timer fires
SpecStartupFair == Init /\ [][NextStartup]_vars /\ WF_vars(TimeoutFires(1))

\* one download view, the first subscriber, among other subscribers; every chunk
\* of engine output is a broadcast
NextView ==
    \/ StdoutData(1, <<"X">>)
    \/ Subscribe
    \/ \E c \in Chan : CloseEvent(c)
    \/ OnMessage(1)
    \/ Unmount(1)

\* a message that arrived at an open EventSource is dispatched
SpecView ==
    /\ Init /\ [][NextView]_vars
    /\ WF_vars(OnMessage(1))

\* the toast store of the browser, on its own
NextToast ==
    \/ \E title \in Titles : Toast(title)
    \/ \E id \in ToastIds, title \in Titles : Update(id, title)
    \/ \E id \in ToastIds \cup {Undefined} : Dismiss(id)
    \/ \E id \in ToastIds \cup {Undefined} : Remove(id)
    \/ \E id \in ToastIds : RemoveTimer(id)

SpecToast == Init /\ [][NextToast]_vars

\* the life cycle of the engine process: start, restart, termination signal
NextShutdown ==
    \/ \E i \in 1..Len(sup) : StdoutData(i, Sentinel)
    \/ \E i \in 1..Len(sup) : TimeoutFires(i)
    \/ \E i \in 1..Len(sup), code \in ExitCodes : ProcExit(i, code)
    \/ \E i \in 1..Len(sup) : ProcError(i)
    \/ RegisterRoutes
    \/ Sigterm

SpecShutdown == Init /\ [][NextShutdown]_vars

\* the same, where no enabled step is postponed forever
SpecShutdownFair == Init /\ [][NextShutdown]_vars /\ WF_vars(NextShutdown)

\* ================================================================ claims
ControlPaths == { ControlPath(op) : op \in Controls }

\* the step in which request r's handler finishes reading the engine's body
Completes(r) == reqs[r].pc = "body" /\ reqs'[r].pc = "done"

\* the outbound call of request r throws in this step
Throws(r) == reqs[r].pc = "fetch" /\ reqs'[r].pc = "done"

\* the job table of the tracked engine
Jobs == procs[pythonProcess].jobs

\* the engine accepts the creation call of request r in this step
Accepts(r) ==
    /\ reqs[r].handler = "createJob"
    /\ reqs[r].pc = "fetch"
    /\ reqs'[r].pc = "body"
    /\ reqs'[r].eng.status = 200

\* a supervisor-level fault of the i-th engine: startup timeout or non-zero exit
Fault(i) ==
    /\ i <= Len(sup)
    /\ sup[i].timedOut \/ procs[i].code \in {"1", "2"}

\* a listJobs call that arrived after readiness, with the engine exited with code 1
AfterCrash(r) ==
    /\ reqs[r].handler = "listJobs"
    /\ reqs[r].ready
    /\ ~reqs[r].up
    /\ procs[pythonProcess].code = "1"

\* a broadcast reaches channel c: one more write, delivered if the transport is up
Notified(c) ==
    /\ chan'[c].writes = chan[c].writes + 1
    /\ chan[c].st = "open" => chan'[c].recv = Append(chan[c].recv, "update")

\* C1: once the engine's standard output so far contains the sentinel, whether it
\* came in one chunk or split over several, the readiness promise is resolved, its
\* startup timer is disarmed and both job routes are registered.
C1_SentinelResolvesReadiness ==
    \A i \in 1..Len(sup) :
        Includes(procs[i].out, Sentinel) =>
            /\ sup[i].promise.st = "resolved"
            /\ ~sup[i].timer
            /\ Routed(routes, "GET", "/api/downloads")
            /\ Routed(routes, "POST", "/api/downloads")

\* the sentinel arrived in two chunks, neither containing it, and readiness resolved
C1_SplitSentinelSeen ==
    /\ procs[1].out = Sentinel
    /\ bcast = 2
    /\ sup[1].promise.st = "resolved"
    /\ Routed(routes, "POST", "/api/downloads")

\* C2: when the startup timer has fired, the readiness promise is rejected with the
\* startup-timeout error, the engine process has been sent a kill, and the promise
\* is not resolved in any later state.
C2_TimeoutRejectsAndKills ==
    \A i \in 1..Len(sup) :
        sup[i].timedOut =>
            /\ sup[i].promise = [st |-> "rejected",
                                 reason |-> "Python service failed to start"]
            /\ procs[i].kills >= 1

\* the timer fired on an engine that had written output without the sentinel
C2_TimedOutWithoutSentinel ==
    /\ sup[1].timedOut
    /\ procs[1].out # <<>>
    /\ ~Includes(procs[1].out, Sentinel)

\* C3: a job-creation request whose body fails the schema (url, format, quality or
\* is_playlist) issues no call to the engine and is answered as an invalid request.
C3_InvalidSpecNeverReachesEngine ==
    \A r \in Req :
        (reqs[r].handler = "createJob" /\ ~formSchema(reqs[r].body)) =>
            /\ reqs[r].calls = <<>>
            /\ reqs[r].pc = "done" => reqs[r].resp.status = 400

\* C4: when the engine accepted a creation (success status, a Job as body), the
\* handler's last step answers 200 with the same Job, and in that same step, after
\* the acceptance and before the response, writes an update marker to every
\* registered channel.
C4_AcceptedCreateBroadcastsThenReturnsJob ==
    [][\A r \in Req :
         (/\ Completes(r)
          /\ reqs[r].handler = "createJob"
          /\ Ok(reqs[r].eng)
          /\ Parse(reqs[r].eng.text)[1] = "value")
         => /\ reqs'[r].resp.status = 200
            /\ Parse(reqs'[r].resp.body) = Parse(reqs[r].eng.text)
            /\ \A c \in clients : Notified(c)
            /\ reqs'[r].ev = <<"fetch", "ok", "json", "notify", "respond">>]_vars

\* a creation was answered with the Job while a subscribed channel got its marker
C4_CreatedAndNotified ==
    \E r \in Req, c \in clients :
        /\ reqs[r].handler = "createJob"
        /\ reqs[r].pc = "done"
        /\ reqs[r].resp = [status |-> 200, body |-> "{job2}"]
        /\ chan[c].recv = <<"ping", "update">>

\* C5: when the engine answers a creation with a non-success status, the handler
\* answers with an error status whose body is the engine's body text, and that step
\* writes to no channel.
C5_RejectedCreateSurfacesBody ==
    [][\A r \in Req :
         (/\ Completes(r)
          /\ reqs[r].handler = "createJob"
          /\ ~Ok(reqs[r].eng))
         => /\ reqs'[r].resp.status >= 400
            /\ reqs'[r].resp.body = reqs[r].eng.text
            /\ chan' = chan
            /\ bcast' = bcast]_vars

\* the engine refused a creation with 422 while a channel was subscribed
C5_RejectedWithSubscriber ==
    \E r \in Req :
        /\ reqs[r].handler = "createJob"
        /\ reqs[r].pc = "done"
        /\ reqs[r].eng.status = 422
        /\ reqs[r].resp.body = "bad request"
        /\ clients # {}

\* C6: listJobs answers with the engine's listing unmodified when the engine call
\* succeeded, and with an error response whenever it failed, an error status from
\* the engine included.
C6_ListJobsResultOrUnavailable ==
    \A r \in Req :
        (reqs[r].handler = "listJobs" /\ reqs[r].pc = "done") =>
            IF Ok(reqs[r].eng) /\ Parse(reqs[r].eng.text)[1] = "value"
            THEN /\ reqs[r].resp.status = 200
                 /\ Parse(reqs[r].resp.body) = Parse(reqs[r].eng.text)
            ELSE reqs[r].resp.status >= 500

\* C7: a pause, resume or cancel request that arrives after readiness is taken by a
\* handler and forwarded to the engine as a control call.
C7_ControlCallsForwarded ==
    \A r \in Req :
        (/\ reqs[r].pc # "free"
         /\ reqs[r].ready
         /\ reqs[r].method = "POST"
         /\ reqs[r].path \in ControlPaths)
        => /\ reqs[r].handler # "none"
           /\ reqs[r].calls # <<>>

\* C8: every channel that was ever subscribed has received the ping first and only
\* once, everything after it being update markers; a channel is registered only
\* once it has its ping.
C8_PingFirstAndOnce ==
    \A c \in Chan :
        /\ chan[c].st = "none" => (chan[c].recv = <<>> /\ c \notin clients)
        /\ chan[c].st # "none" =>
              /\ chan[c].recv # <<>>
              /\ chan[c].recv[1] = "ping"
              /\ \A k \in 2..Len(chan[c].recv) : chan[c].recv[k] = "update"

\* a channel got its ping and then the markers of two broadcasts
C8_PingThenUpdates ==
    \E c \in Chan : chan[c].recv = <<"ping", "update", "update">>

\* C9: a channel whose close signal was handled is out of the registry; nothing is
\* written to it afterwards; and every broadcast, whatever closes happened around it,
\* writes its marker to every channel that is registered when it runs.
C9_RemovalSafeWithBroadcast ==
    [][\A c \in Chan :
         /\ chan'[c].st = "closed" => c \notin clients'
         /\ chan[c].st = "closed" => chan'[c].writes = chan[c].writes
         /\ (bcast' # bcast /\ c \in clients) => Notified(c)]_vars

\* the first channel was removed after a broadcast, and a later broadcast still
\* reached the second one
C9_BroadcastAfterRemoval ==
    /\ chan[1].st = "closed"
    /\ chan[1].writes = 2
    /\ 2 \in clients
    /\ chan[2].recv = <<"ping", "update", "update">>

\* C10: a broadcast that fails to write to a channel evicts that channel from the
\* registry, and still writes its marker to every other registered channel.
C10_FailedWriteEvicts ==
    [][\A c \in clients :
         (bcast' # bcast /\ chan[c].st # "open") =>
             /\ c \notin clients'
             /\ \A d \in clients \ {c} : Notified(d)]_vars


\* C11: each broadcast writes exactly one update marker to every channel that is
\* registered at the moment of the broadcast, and leaves every channel that is not
\* registered exactly as it was, whatever the number of registered channels.
C11_BroadcastReachesExactlyRegistered ==
    [][bcast' # bcast =>
          \A c \in Chan : IF c \in clients
                          THEN Notified(c)
                          ELSE chan'[c] = chan[c]]_vars

\* one broadcast with N = 2 registered channels: each holds the ping and one update
C11_TwoChannelsOneUpdateEach ==
    /\ clients = Chan
    /\ bcast = 1
    /\ \A c \in Chan : chan[c].recv = <<"ping", "update">> /\ chan[c].writes = 2

\* C12: shutdown is idempotent: the first delivery of the termination signal asks
\* the tracked engine process to terminate once, and a further delivery asks
\* nothing more of it.
C12_SecondSignalAsksNothing ==
    [][gw'.signals = gw.signals + 1 =>
          procs'[pythonProcess].kills =
              procs[pythonProcess].kills + (IF gw.signals = 0 THEN 1 ELSE 0)]_vars

\* C13: at most one engine process is supervised at any time: a restart terminates
\* the old process before the new one is launched, and the tracked handle is the
\* newest process.
C13_OneEngineSupervised ==
    /\ Cardinality({ i \in 1..Len(procs) : procs[i].alive }) <= 1
    /\ pythonProcess = Len(procs)
    /\ \A i \in 1..Len(procs) : i # pythonProcess => procs[i].kills >= 1

\* C14: when the engine exits with a non-zero code before readiness, the readiness
\* promise is rejected with the engine-exited error carrying that code, the startup
\* timer is cleared, and the job routes are not registered (the Gateway has exited).
C14_EarlyCrashRejectsWithCode ==
    \A i \in 1..Len(procs) :
        (procs[i].code \in {"1", "2"} /\ sup[i].promise.st # "resolved") =>
            /\ sup[i].promise = [st |-> "rejected", reason |-> ExitReason(procs[i].code)]
            /\ ~sup[i].timer
            /\ ~Routed(routes, "GET", "/api/downloads")
            /\ ~Routed(routes, "POST", "/api/downloads")
            /\ gw.st = "exited"

\* the engine printed something, not the sentinel, and exited with code 2
C14_CrashedBeforeSentinel ==
    /\ procs[1].code = "2"
    /\ procs[1].out = <<"A">>
    /\ sup[1].promise.reason = "Python service exited with code 2"
    /\ routes = <<EventsRoute>>

\* C15: once the engine has exited with code 1 after readiness, every listJobs
\* call that arrives afterwards completes, and completes with the
\* upstream-unavailable error response: it is never answered otherwise and it
\* does not stay pending.
C15_ListAfterCrashUnavailable ==
    /\ [](\A r \in Req : AfterCrash(r) =>
              /\ reqs[r].pc \in {"fetch", "done"}
              /\ reqs[r].pc = "done" => reqs[r].resp = SendError("Failed to fetch downloads"))
    /\ \A r \in Req : (AfterCrash(r) /\ reqs[r].pc = "fetch") ~>
                           (reqs[r].pc = "done" /\ reqs[r].resp.status = 500)

\* readiness, then exit code 1, then a listJobs call answered with the error
C15_ListedAfterCrash ==
    \E r \in Req :
        /\ AfterCrash(r)
        /\ reqs[r].pc = "done"
        /\ reqs[r].resp = [status |-> 500, body |-> "Failed to fetch downloads"]
        /\ gw.st = "running"

\* C16: every supervisor-level fault is fatal: after a startup timeout or a
\* non-zero exit of the engine, before or after readiness, the Gateway process
\* eventually exits with a non-zero code.
C16_FaultIsFatal ==
    \A i \in 1..MaxInit : Fault(i) ~> (gw.st = "exited" /\ gw.code # 0)

\* C18: the shutdown sequence runs to completion: once a termination signal has
\* been received, the engine process has been asked to exit and the Gateway
\* process itself eventually exits.
C18_ShutdownCompletes ==
    /\ [][gw'.signals > gw.signals =>
              procs'[pythonProcess].kills > procs[pythonProcess].kills]_vars
    /\ (gw.signals >= 1) ~> (gw.st = "exited")

\* C17: before the readiness promise resolves no request is proxied to the engine,
\* and a call to a job-mutating endpoint that arrives before readiness is either
\* held until readiness resolves (and then taken by its handler) or answered by
\* the Gateway at once with a service-not-ready error.
C17_NotReadyPolicy ==
    \A r \in Req :
        (reqs[r].pc # "free" /\ ~reqs[r].ready) =>
            /\ reqs[r].calls = <<>>
            /\ (reqs[r].method = "POST" /\ reqs[r].pc = "done") =>
                   \/ reqs[r].handler = "createJob"
                   \/ reqs[r].resp.status >= 400

\* C19: for every valid Job spec, createJob forwards the spec to the engine
\* unchanged and each accepted submission creates exactly one Job, whose fields
\* are the submitted ones, also when the same URL is submitted twice; the answer
\* to createJob is that Job, and a listJobs made next returns the engine's Jobs,
\* that Job among them exactly once.
C19_OneJobPerSubmission ==
    /\ [](\A r \in Req :
            /\ reqs[r].handler = "createJob" =>
                   /\ reqs[r].calls[1].body = reqs[r].body
                   /\ (reqs[r].pc = "done" /\ reqs[r].resp.status = 200) =>
                          /\ Cardinality({ k \in 1..Len(Jobs) :
                                             JobText(Jobs[k]) = reqs[r].resp.body }) = 1
                          /\ \E k \in 1..Len(Jobs) :
                                 /\ JobText(Jobs[k]) = reqs[r].resp.body
                                 /\ SpecOf(Jobs[k]) = reqs[r].body
            /\ (reqs[r].handler = "listJobs" /\ reqs[r].pc = "done"
                                              /\ reqs[r].resp.status = 200) =>
                   JobsOf(reqs[r].resp.body) = Jobs)
    /\ [][IF \E r \in Req : Accepts(r)
          THEN \E r \in Req :
                  /\ Accepts(r)
                  /\ Len(Jobs') = Len(Jobs) + 1
                  /\ SubSeq(Jobs', 1, Len(Jobs)) = Jobs
                  /\ SpecOf(Jobs'[Len(Jobs')]) = reqs[r].body
          ELSE Jobs' = Jobs]_vars

\* the same spec submitted twice, then listed: two Jobs with different ids
C19_SameUrlTwiceListed ==
    \E r \in Req :
        /\ issued = 3
        /\ reqs[r].handler = "listJobs"
        /\ reqs[r].pc = "done"
        /\ reqs[r].resp.status = 200
        /\ Len(JobsOf(reqs[r].resp.body)) = 2
        /\ SpecOf(JobsOf(reqs[r].resp.body)[1]) = SpecOf(JobsOf(reqs[r].resp.body)[2])
        /\ JobsOf(reqs[r].resp.body)[1].id # JobsOf(reqs[r].resp.body)[2].id

\* C20: when the outbound call of listJobs or createJob throws, that request alone
\* gets an error response: the Gateway keeps running, the channel registry, the
\* channels, the routes and the tracked engine handle are unchanged, no other
\* request is touched, and a ready Gateway keeps its job routes for later calls.
C20_ProxyFailureIsLocal ==
    /\ [][\A r \in Req : Throws(r) =>
              /\ reqs'[r].resp.status = 500
              /\ reqs'[r].resp.body = IF reqs[r].handler = "listJobs"
                                      THEN "Failed to fetch downloads" ELSE "fetch failed"
              /\ \A q \in Req \ {r} : reqs'[q] = reqs[q]
              /\ gw' = gw /\ gw.st = "running"
              /\ clients' = clients /\ chan' = chan /\ bcast' = bcast
              /\ pythonProcess' = pythonProcess /\ procs' = procs
              /\ routes' = routes]_vars
    /\ [](IsReady => /\ gw.st = "running"
                     /\ Routed(routes, "GET", "/api/downloads")
                     /\ Routed(routes, "POST", "/api/downloads"))

\* a creation call failed with a subscriber connected; the client has calls left
C20_CreateFailedLocally ==
    \E r \in Req :
        /\ reqs[r].handler = "createJob"
        /\ reqs[r].pc = "done"
        /\ reqs[r].resp = [status |-> 500, body |-> "fetch failed"]
        /\ clients # {}
        /\ \A c \in clients : chan[c].recv = <<"ping">>
        /\ issued < MaxCalls

\* C21: output on the engine's error stream never changes the readiness promise:
\* a chunk is only logged, as critical exactly when it holds neither "INFO:" nor
\* "WARNING:", and neither a critical chunk nor sentinel text on the error stream
\* settles the promise, feeds the sentinel search, clears the timer, registers
\* routes or ends the Gateway.
C21_StderrLeavesReadinessAlone ==
    /\ [][\A i \in 1..MaxInit :
              (i <= Len(sup) /\ sup'[i].errs # sup[i].errs) =>
                  /\ sup'[i].promise = sup[i].promise
                  /\ sup'[i].output = sup[i].output
                  /\ sup'[i].timer = sup[i].timer
                  /\ routes' = routes /\ gw' = gw /\ procs' = procs]_vars
    /\ [](\A k \in 1..Len(sup[1].errs) :
              sup[1].errs[k].critical <=>
                  sup[1].errs[k].message \in { <<"X">>, <<"A", "B">> })

\* a critical chunk and the sentinel text both arrived on the error stream and the
\* promise is still pending, its timer armed
C21_SentinelOnStderrPending ==
    /\ sup[1].errs = << [message |-> <<"X">>, critical |-> TRUE],
                        [message |-> <<"I", "A", "B">>, critical |-> FALSE] >>
    /\ sup[1].promise = Pending
    /\ sup[1].timer
    /\ gw.st = "running"

\* C22: the download view calls refetch once for every message dispatched to it,
\* the ping as well as each update marker; every message that arrives while the
\* view is mounted is dispatched; and once the view is torn down its EventSource
\* is closed, so that no refetch is issued after that.
C22_RefetchPerMessageUntilTornDown ==
    /\ [](\A c \in Chan :
              /\ chan[c].refetch = chan[c].got
              /\ chan[c].got <= Len(chan[c].recv)
              /\ chan[c].torn => chan[c].st \in {"dead", "closed"})
    /\ [][\A c \in Chan :
              /\ chan[c].torn => chan'[c].refetch = chan[c].refetch
              /\ chan'[c].refetch \in {chan[c].refetch, chan[c].refetch + 1}]_vars
    /\ (~chan[1].torn /\ chan[1].got < Len(chan[1].recv)) ~>
           (chan[1].torn \/ chan[1].got = Len(chan[1].recv))

\* a view re-fetched for the ping and for one update, was torn down, and a later
\* update written before the close event caused no re-fetch
C22_TornDownViewStaysQuiet ==
    /\ chan[1].torn
    /\ chan[1].recv = <<"ping", "update">>
    /\ chan[1].refetch = 2
    /\ chan[1].writes = 3

\* C23: the readiness promise always eventually settles: when the engine process
\* has exited, with any code, before the sentinel was seen, the promise does not
\* stay pending forever.
C23_ReadinessSettles ==
    (~procs[1].alive /\ ~Includes(sup[1].output, Sentinel)) ~>
        (sup[1].promise.st # "pending")

\* C24: after a restart the callbacks armed for an old engine affect only that
\* engine: the startup timeout of an engine that is no longer tracked does not
\* kill the tracked one, and each termination signal asks the tracked engine to
\* terminate exactly once, however many times registerRoutes was called.
C24_OldCallbacksStayLocal ==
    [][/\ \A i \in 1..MaxInit :
              (i <= Len(sup) /\ i # pythonProcess
                             /\ ~sup[i].timedOut /\ sup'[i].timedOut) =>
                  procs'[pythonProcess].kills = procs[pythonProcess].kills
       /\ gw'.signals = gw.signals + 1 =>
              procs'[pythonProcess].kills = procs[pythonProcess].kills + 1]_vars

\* C25: the readiness promise is one-shot: once settled it never changes; once it
\* has resolved, no later event (engine crash, spawn error, more output holding
\* the sentinel) registers routes again or ends the Gateway; once it has been
\* rejected the routes stay as they are; the job routes are registered at most
\* once and never for a rejected promise.
C25_ReadinessOneShot ==
    /\ [][\A i \in 1..MaxInit : i <= Len(sup) =>
              /\ sup[i].promise.st # "pending" => sup'[i].promise = sup[i].promise
              /\ sup[i].promise.st = "resolved" => routes' = routes /\ gw' = gw
              /\ sup[i].promise.st = "rejected" => routes' = routes]_vars
    /\ [](/\ Cardinality(Matches(routes, "GET", "/api/downloads")) <= 1
          /\ Cardinality(Matches(routes, "POST", "/api/downloads")) <= 1
          /\ sup[1].promise.st = "rejected" => ~Routed(routes, "POST", "/api/downloads"))

\* resolved, then one more chunk with the sentinel still in the output, then the
\* engine crashed: still resolved, job routes registered once, Gateway running
C25_CrashAfterResolveIgnored ==
    /\ sup[1].promise.st = "resolved"
    /\ procs[1].out = <<"A", "B", "X">>
    /\ procs[1].code = "1"
    /\ routes = <<EventsRoute, ListRoute, CreateRoute>>
    /\ gw.st = "running"

\* C26: after any sequence of toast actions the list holds at most TOAST_LIMIT
\* toasts and a toast it holds is the one added last; DISMISS_TOAST only sets open
\* to false on the targeted toasts (every toast when no id is given) and removes
\* none; at most one removal timer is scheduled per toast id, however often that
\* toast is dismissed.
C26_ToastListAndTimers ==
    /\ [](/\ Len(toaster.toasts) <= TOAST_LIMIT
          /\ \A k \in 1..Len(toaster.toasts) :
                 toaster.toasts[k].id = ToString(toaster.count)
          /\ \A id \in ToastIds : toaster.armed[id] <= 1)
    /\ [][\A id \in ToastIds \cup {Undefined} : Dismiss(id) =>
              /\ Len(toaster'.toasts) = Len(toaster.toasts)
              /\ \A k \in 1..Len(toaster.toasts) :
                     toaster'.toasts[k] =
                         IF id \in {toaster.toasts[k].id, Undefined}
                         THEN [toaster.toasts[k] EXCEPT !.open = FALSE]
                         ELSE toaster.toasts[k]]_vars

\* the second toast replaced the first and was dismissed; a dismissal of the
\* first toast's id had scheduled a timer too: one timer each, the list keeps it
C26_DismissedStillListed ==
    /\ toaster.count = 2
    /\ toaster.toasts = << [id |-> "2", open |-> FALSE, title |-> "b"] >>
    /\ toaster.has = {"1", "2"}
    /\ \A id \in {"1", "2"} : toaster.armed[id] = 1
====
